---- MODULE Spec2Model ----
(***************************************************************************)
(* A model of augmenter.py: synonym lookup (get_synonyms), lexical         *)
(* substitution (lexical_substitution) and the two thread-pool wrappers    *)
(* (augment_text_parallel, augment_chunk_parallel).                        *)
(*                                                                         *)
(* A string is a sequence of pieces: a word, a punctuation mark or one     *)
(* blank.  The tokenizer drops blanks and splits contractions, str.join    *)
(* puts exactly one blank between strings, str.lower maps a piece to its   *)
(* lower-case form.  The lexical database, the stop-word list and the      *)
(* alphabetic test are small excerpts of the NLTK data the code reads.     *)
(***************************************************************************)
EXTENDS Integers, Sequences, FiniteSets, TLC

VARIABLES
    chunk,           \* the argument of augment_chunk_parallel
    wordnet_loaded,  \* whether nltk.download('wordnet') fetched the corpus
    rng,             \* state of the process-wide generator of module random
    writes,          \* <<worker, location>>: the worker call wrote the location
    pc,              \* where the thread calling augment_chunk_parallel stands
    outer,           \* the executor of augment_chunk_parallel
    inner,           \* per text of the chunk, the frame of augment_text_parallel
    result,          \* what augment_chunk_parallel handed to its caller
    lib              \* a direct call of get_synonyms or lexical_substitution

vars == <<chunk, wordnet_loaded, rng, writes, pc, outer, inner, result, lib>>

\* ------------------------------------------------------------------ bounds
\* Longest input text, in pieces, that Init enumerates.
MaxTextLen == 3
\* Longest chunk handed to augment_chunk_parallel.
MaxChunk == 2
\* Worker threads of one ThreadPoolExecutor.
MaxWorkers == 2
\* The random generator's state is kept modulo RngMod.
RngMod == 3

\* ------------------------------------------------------- strings and NLTK
Blank == " "
Comma == ","
None == "None"

\* str.isalpha (lines 60, 75): the pieces made of letters only.
Alphabetic ==
    {"The", "the", "Cat", "cat", "sat", "xyzzy", "cannot", "can", "not",
     "vomit", "sit", "Sat", "tin", "feline"}

isalpha(word) == word \in Alphabetic

\* str.lower (line 73), piece by piece.
LowerPiece(p) ==
    CASE p = "The" -> "the"
      [] p = "Cat" -> "cat"
      [] p = "Sat" -> "sat"
      [] OTHER -> p

lower(text) == [k \in 1..Len(text) |-> LowerPiece(text[k])]

\* stopwords.words('english') (lines 57, 74): lower-case entries only.
stop_words == {"the", "can", "not"}

\* word_tokenize (lines 55, 73): blanks separate tokens and are dropped, a
\* punctuation mark is a token of its own, "cannot" is split in two.
RECURSIVE word_tokenize(_)
word_tokenize(text) ==
    IF text = <<>> THEN <<>>
    ELSE LET p == Head(text)
             toks == IF p = Blank THEN <<>>
                     ELSE IF p = "cannot" THEN <<"can", "not">>
                     ELSE <<p>>
         IN toks \o word_tokenize(Tail(text))

\* ' '.join (lines 70, 80): the strings in order, one blank between two.
RECURSIVE join(_)
join(strs) ==
    IF strs = <<>> THEN <<>>
    ELSE IF Len(strs) = 1 THEN strs[1]
    ELSE strs[1] \o <<Blank>> \o join(Tail(strs))

\* A token as a string of its own.
Str(token) == <<token>>

\* The senses of the lexical database that the model's words reach.  A query
\* is matched in lower case; a sense has one part of speech and its lemmas.
WordNet ==
    { [id |-> "cat.n.01",   pos |-> "n", forms |-> {"cat"}, lemmas |-> {"cat", "true_cat"}],
      [id |-> "vomit.v.01", pos |-> "v", forms |-> {"cat"}, lemmas |-> {"vomit", "cat"}],
      [id |-> "sit.v.01",   pos |-> "v", forms |-> {"sat"}, lemmas |-> {"sit"}],
      [id |-> "sat.n.01",   pos |-> "n", forms |-> {"sat"}, lemmas |-> {"Sat"}],
      [id |-> "can.n.01",   pos |-> "n", forms |-> {"can"}, lemmas |-> {"can", "tin"}] }

\* wordnet.synsets(word, pos=pos) (line 29).
synsets(word, pos) ==
    {syn \in WordNet : /\ LowerPiece(word) \in syn.forms
                       /\ (pos = None \/ syn.pos = pos)}

\* ------------------------------------------------------ custom_synonyms
\* The argument is None or a dict from word to list of words.
NoCustom == [none |-> TRUE, table |-> [w \in {} |-> <<>>]]
Dict(table) == [none |-> FALSE, table |-> table]

\* Truth value of the argument (line 33): None and {} are both false.
Truthy(custom_synonyms) ==
    /\ ~custom_synonyms.none
    /\ DOMAIN custom_synonyms.table # {}

\* The lookup of line 34 adding every list of the table, whatever its key.
custom_get_all_values(custom_synonyms, word) ==
    UNION {{custom_synonyms.table[w][k] : k \in 1..Len(custom_synonyms.table[w])}
           : w \in DOMAIN custom_synonyms.table}

\* custom_synonyms.get(word, []) (line 34), as the set update() adds.
custom_get(custom_synonyms, word) ==
    IF word \in DOMAIN custom_synonyms.table
    THEN {custom_synonyms.table[word][k] : k \in 1..Len(custom_synonyms.table[word])}
    ELSE {}

\* ---------------------------------------------------------- get_synonyms
\* The lemma names of every sense of the word (lines 29-31).
lemma_names(word, pos) == UNION {syn.lemmas : syn \in synsets(word, pos)}

\* The lookup of line 29 raises LookupError when the corpus is missing.
lookup_raises == ~wordnet_loaded

\* get_synonyms without the discard of line 36.
get_synonyms_no_discard(word, pos, custom_synonyms) ==
    IF Truthy(custom_synonyms)
    THEN lemma_names(word, pos) \cup custom_get(custom_synonyms, word)
    ELSE lemma_names(word, pos)

\* get_synonyms where a custom entry replaces the database's lemmas.
get_synonyms_override(word, pos, custom_synonyms) ==
    IF Truthy(custom_synonyms) /\ custom_get(custom_synonyms, word) # {}
    THEN custom_get(custom_synonyms, word) \ {word}
    ELSE lemma_names(word, pos) \ {word}

\* Lines 27-38, as the set whose elements the returned list holds.
get_synonyms(word, pos, custom_synonyms) ==
    LET synonyms == lemma_names(word, pos)
        updated == IF Truthy(custom_synonyms)
                   THEN synonyms \cup custom_get(custom_synonyms, word)
                   ELSE synonyms
    IN updated \ {word}

\* ---------------------------------------------------- lexical_substitution
\* The test of line 60 without its stop-word half.
Substitutable_alpha_only(word) == isalpha(word)

\* The test of line 60.
Substitutable(word) == isalpha(word) /\ word \notin stop_words

\* The loop body choosing among the synonyms and the token itself.
Emit_with_original(word, pos, custom_synonyms) ==
    IF isalpha(word) /\ word \notin stop_words
    THEN get_synonyms(word, pos, custom_synonyms) \cup {word}
    ELSE {word}

\* Lines 60-68: the tokens the loop body may append for one token.  The list
\* of line 38 has no fixed order and random.choice picks any position of it.
Emit(word, pos, custom_synonyms) ==
    IF Substitutable(word)
    THEN LET synonyms == get_synonyms(word, pos, custom_synonyms)
         IN IF synonyms # {} THEN synonyms ELSE {word}
    ELSE {word}

\* Whether the loop body calls random.choice for the token (line 63).
Draws(word, pos, custom_synonyms) ==
    IF Substitutable(word) /\ get_synonyms(word, pos, custom_synonyms) # {}
    THEN 1 ELSE 0

RECURSIVE Augmentations(_, _, _)
Augmentations(words, pos, custom_synonyms) ==
    IF words = <<>> THEN {<<>>}
    ELSE {<<e>> \o rest : e \in Emit(Head(words), pos, custom_synonyms),
                          rest \in Augmentations(Tail(words), pos, custom_synonyms)}

RECURSIVE TotalDraws(_, _, _)
TotalDraws(words, pos, custom_synonyms) ==
    IF words = <<>> THEN 0
    ELSE Draws(Head(words), pos, custom_synonyms)
         + TotalDraws(Tail(words), pos, custom_synonyms)

\* Lines 55-70: every outcome of one call.  The call raises at the first
\* substitutable token when the lookup raises; otherwise it returns the
\* emitted tokens joined by blanks, after `draws` calls of random.choice.
lexical_substitution(text, pos, custom_synonyms) ==
    LET words == word_tokenize(text)
    IN IF lookup_raises /\ \E k \in 1..Len(words) : Substitutable(words[k])
       THEN {[raised |-> TRUE, words |-> words, augmented_text |-> <<>>,
              value |-> <<>>, draws |-> 0]}
       ELSE {[raised |-> FALSE, words |-> words, augmented_text |-> a,
              value |-> join([k \in 1..Len(a) |-> Str(a[k])]),
              draws |-> TotalDraws(words, pos, custom_synonyms)]
             : a \in Augmentations(words, pos, custom_synonyms)}

\* random.choice reads the generator's state and advances it (line 63).
Advance(state, draws) == (state + draws) % RngMod

\* ------------------------------------------------------------ the inputs
Words == {"The", "the", "Cat", "cat", "xyzzy", "cannot"}
Pieces == Words \cup {Comma, Blank}

\* Two words of a text are separated by a blank or a punctuation mark.
WellFormed(text) ==
    \A k \in 1..(Len(text) - 1) : ~(text[k] \in Words /\ text[k + 1] \in Words)

TextsOver(pieces, n) ==
    {t \in UNION {[1..m -> pieces] : m \in 0..n} : WellFormed(t)}

\* "The cat sat"
ExampleText == <<"The", Blank, "cat", Blank, "sat">>
ExampleCustom == Dict("cat" :> <<"feline">>)

Texts == TextsOver(Pieces, MaxTextLen) \cup {ExampleText}
PosTags == {None, "n", "v", "a"}
Customs ==
    { NoCustom,
      Dict([w \in {} |-> <<>>]),
      ExampleCustom,
      Dict("cat" :> <<"cat", "feline">>),
      Dict(("xyzzy" :> <<"xyzzy">>) @@ ("the" :> <<"feline">>)) }

\* ------------------------------------------- direct calls of the library
LibIdle ==
    [fn |-> "none", word |-> "", text |-> <<>>, pos |-> None,
     custom_synonyms |-> NoCustom, status |-> "idle", raised |-> FALSE,
     synonyms |-> {}, words |-> <<>>, augmented_text |-> <<>>, value |-> <<>>]

ParIdle ==
    /\ chunk = <<>>
    /\ pc = "idle"
    /\ outer = <<>>
    /\ inner = <<>>
    /\ result = [kind |-> "none", value |-> <<>>]
    /\ writes = {}

LibInit ==
    /\ ParIdle
    /\ wordnet_loaded \in BOOLEAN
    /\ rng \in 0..(RngMod - 1)
    /\ \E fn \in {"get_synonyms", "lexical_substitution"},
          word \in Words \cup {"sat"}, text \in Texts, pos \in PosTags,
          custom_synonyms \in Customs :
          /\ fn = "get_synonyms" => text = <<>>
          /\ fn = "lexical_substitution" => word = "cat"
          /\ lib = [LibIdle EXCEPT !.fn = fn, !.word = word, !.text = text,
                                   !.pos = pos, !.custom_synonyms = custom_synonyms,
                                   !.status = "call"]

\* get_synonyms(word, pos, custom_synonyms)
GetSynonymsCall ==
    /\ lib.fn = "get_synonyms" /\ lib.status = "call"
    /\ lib' = IF lookup_raises
              THEN [lib EXCEPT !.status = "raised", !.raised = TRUE]
              ELSE [lib EXCEPT !.status = "returned",
                               !.synonyms = get_synonyms(lib.word, lib.pos,
                                                         lib.custom_synonyms)]
    /\ UNCHANGED <<chunk, wordnet_loaded, rng, writes, pc, outer, inner, result>>

\* lexical_substitution(text, pos, custom_synonyms)
LexicalSubstitutionCall ==
    /\ lib.fn = "lexical_substitution" /\ lib.status = "call"
    /\ \E o \in lexical_substitution(lib.text, lib.pos, lib.custom_synonyms) :
          /\ lib' = [lib EXCEPT !.status = IF o.raised THEN "raised" ELSE "returned",
                                !.raised = o.raised,
                                !.words = o.words,
                                !.augmented_text = o.augmented_text,
                                !.value = o.value]
          /\ rng' = Advance(rng, o.draws)
    /\ UNCHANGED <<chunk, wordnet_loaded, writes, pc, outer, inner, result>>

LibNext == GetSynonymsCall \/ LexicalSubstitutionCall

LibSpec == LibInit /\ [][LibNext]_vars

\* ------------------------------------------------ ThreadPoolExecutor.map
\* executor.map submits one future per item, in order (lines 78, 97).
Submitted(n) == [k \in 1..n |-> [state |-> "pending", value |-> <<>>]]

RunningIn(fs) == {k \in 1..Len(fs) : fs[k].state = "running"}

\* The executor of augment_chunk_parallel, created at line 96.
OuterPool == <<"chunk", 0>>

\* The tokens of every text submitted to the executor of the chunk.
InnerPool_shared(i) == OuterPool

\* The executor each augment_text_parallel call runs its tokens on: one of
\* its own, created at line 77.
InnerPool(i) == <<"text", i>>

\* Threads of a pool that are running a task.
Busy(pool) ==
    (IF pool = OuterPool THEN Cardinality(RunningIn(outer.fs)) ELSE 0)
    + Cardinality(UNION {{<<i, j>> : j \in RunningIn(inner[i].fs)} :
                         i \in {t \in DOMAIN inner : InnerPool(t) = pool}})

\* A worker thread takes the oldest queued task when a thread is free; a
\* cancelled future is skipped.
CanStart(fs, k, pool) ==
    /\ k \in 1..Len(fs)
    /\ fs[k].state = "pending"
    /\ \A j \in 1..(k - 1) : fs[j].state # "pending"
    /\ Busy(pool) < MaxWorkers

\* A failed call's exception dropped, its empty result taken instead.
FutureRaises_swallowed(f) == FALSE

\* Future.result() re-raises the exception of a failed call.
FutureRaises(f) == f.state = "failed"

\* Results taken as the calls complete instead of as they were submitted.
NextChunkResult_completion(fs, got, order) ==
    IF Len(got) < Len(fs)
    THEN IF Len(order) > Len(got) THEN order[Len(got) + 1] ELSE Len(fs) + 1
    ELSE 0

NextTokenResult_completion(fs, got, order) ==
    IF Len(got) < Len(fs)
    THEN IF Len(order) > Len(got) THEN order[Len(got) + 1] ELSE Len(fs) + 1
    ELSE 0

\* The future whose result list(executor.map(...)) takes next at line 97: the
\* next in submission order (0: none left).
NextChunkResult(fs, got, order) ==
    IF Len(got) < Len(fs) THEN Len(got) + 1 ELSE 0

\* The same at line 78.
NextTokenResult(fs, got, order) ==
    IF Len(got) < Len(fs) THEN Len(got) + 1 ELSE 0

\* The exception leaves the iteration: the futures still queued are cancelled.
Cancel(fs) ==
    [k \in 1..Len(fs) |->
        IF fs[k].state = "pending" THEN [fs[k] EXCEPT !.state = "cancelled"] ELSE fs[k]]

Settled(fs) == \A k \in 1..Len(fs) : fs[k].state \in {"done", "failed", "cancelled"}

\* ------------------------------------------------------ worker bookkeeping
\* Worker <<i, 0>> runs augment_text_parallel on text i of the chunk, worker
\* <<i, j>> runs lexical_substitution on its j-th filtered token.
Random == <<"random", 0, 0>>
\* One list shared by every call, as a module-level accumulator would be.
AugmentedTextOf_shared(i, j) == <<"augmented_text", 0, 0>>

\* The list `augmented_text` of line 56 is local to the call.
AugmentedTextOf(i, j) == <<"augmented_text", i, j>>
\* The locals of augment_text_parallel (lines 73-80).
AugmentedTokensOf(i) == <<"augmented_tokens", i, 0>>

Wrote(worker, loc) == [worker |-> worker, loc |-> loc]

\* ---------------------------------------------------- augment_text_parallel
\* Line 75.
filtered_tokens(text) ==
    SelectSeq(word_tokenize(lower(text)),
              LAMBDA word : isalpha(word) /\ word \notin stop_words)

NoFrame == [pc |-> "idle", filtered_tokens |-> <<>>, fs |-> <<>>,
            order |-> <<>>, got |-> <<>>]

\* A worker of the outer pool starts augment_text_parallel(chunk[i]): lines
\* 73-75 and the submissions of line 78.
StartText(i) ==
    /\ CanStart(outer.fs, i, OuterPool)
    /\ outer' = [outer EXCEPT !.fs[i].state = "running"]
    /\ inner' = [inner EXCEPT ![i] =
                    [pc |-> "map",
                     filtered_tokens |-> filtered_tokens(chunk[i]),
                     fs |-> Submitted(Len(filtered_tokens(chunk[i]))),
                     order |-> <<>>, got |-> <<>>]]
    /\ writes' = writes \cup {Wrote(<<i, 0>>, AugmentedTokensOf(i))}
    /\ UNCHANGED <<chunk, wordnet_loaded, rng, pc, result, lib>>

\* A worker of text i's pool starts lexical_substitution on token j.
StartToken(i, j) ==
    /\ inner[i].pc # "idle"
    /\ CanStart(inner[i].fs, j, InnerPool(i))
    /\ inner' = [inner EXCEPT ![i].fs[j].state = "running"]
    /\ UNCHANGED <<chunk, wordnet_loaded, rng, writes, pc, outer, result, lib>>

\* lexical_substitution(token) ends: it returned a string or raised.
FinishToken(i, j) ==
    /\ inner[i].pc # "idle"
    /\ j \in RunningIn(inner[i].fs)
    /\ \E o \in lexical_substitution(Str(inner[i].filtered_tokens[j]), None, NoCustom) :
          /\ inner' = [inner EXCEPT
                          ![i].fs[j] = [state |-> IF o.raised THEN "failed" ELSE "done",
                                        value |-> o.value],
                          ![i].order = Append(@, j)]
          /\ rng' = Advance(rng, o.draws)
          /\ writes' = writes
                \cup (IF o.raised THEN {} ELSE {Wrote(<<i, j>>, AugmentedTextOf(i, j))})
                \cup (IF o.draws > 0 THEN {Wrote(<<i, j>>, Random)} ELSE {})
    /\ UNCHANGED <<chunk, wordnet_loaded, pc, outer, result, lib>>

\* list(executor.map(lexical_substitution, filtered_tokens)), line 78: take
\* the next result, or leave with its exception, or finish the list.
CollectToken(i) ==
    /\ inner[i].pc = "map"
    /\ LET f == inner[i]
           k == NextTokenResult(f.fs, f.got, f.order)
       IN IF k = 0
          THEN inner' = [inner EXCEPT ![i].pc = "shutdown"]
          ELSE /\ k \in 1..Len(f.fs)
               /\ f.fs[k].state \in {"done", "failed"}
               /\ inner' = IF FutureRaises(f.fs[k])
                           THEN [inner EXCEPT ![i].pc = "unwind",
                                              ![i].fs = Cancel(f.fs)]
                           ELSE [inner EXCEPT ![i].got = Append(@, f.fs[k].value)]
    /\ UNCHANGED <<chunk, wordnet_loaded, rng, writes, pc, outer, result, lib>>

\* The with block of line 77 ends (shutdown waits for the running tokens),
\* then lines 80-81 return the joined string.
ReturnText(i) ==
    /\ inner[i].pc = "shutdown"
    /\ Settled(inner[i].fs)
    /\ inner' = [inner EXCEPT ![i].pc = "done"]
    /\ outer' = [outer EXCEPT !.fs[i] = [state |-> "done", value |-> join(inner[i].got)],
                              !.order = Append(@, i)]
    /\ UNCHANGED <<chunk, wordnet_loaded, rng, writes, pc, result, lib>>

\* The with block of line 77 ends with the exception in flight: the call of
\* augment_text_parallel raises and returns nothing.
RaiseText(i) ==
    /\ inner[i].pc = "unwind"
    /\ Settled(inner[i].fs)
    /\ inner' = [inner EXCEPT ![i].pc = "done"]
    /\ outer' = [outer EXCEPT !.fs[i] = [state |-> "failed", value |-> <<>>],
                              !.order = Append(@, i)]
    /\ UNCHANGED <<chunk, wordnet_loaded, rng, writes, pc, result, lib>>

\* --------------------------------------------------- augment_chunk_parallel
\* Lines 96-97: the executor is created and every text is submitted.
Submit ==
    /\ pc = "call"
    /\ pc' = "map"
    /\ outer' = [fs |-> Submitted(Len(chunk)), order |-> <<>>, got |-> <<>>]
    /\ UNCHANGED <<chunk, wordnet_loaded, rng, writes, inner, result, lib>>

\* list(executor.map(augment_text_parallel, chunk)), line 97.
CollectChunk ==
    /\ pc = "map"
    /\ LET k == NextChunkResult(outer.fs, outer.got, outer.order)
       IN IF k = 0
          THEN pc' = "shutdown" /\ outer' = outer
          ELSE /\ k \in 1..Len(outer.fs)
               /\ outer.fs[k].state \in {"done", "failed"}
               /\ IF FutureRaises(outer.fs[k])
                  THEN pc' = "unwind" /\ outer' = [outer EXCEPT !.fs = Cancel(@)]
                  ELSE pc' = "map" /\ outer' = [outer EXCEPT !.got = Append(@, outer.fs[k].value)]
    /\ UNCHANGED <<chunk, wordnet_loaded, rng, writes, inner, result, lib>>

\* The with block of line 96 ends, line 98 returns the list.
ReturnChunk ==
    /\ pc = "shutdown"
    /\ Settled(outer.fs)
    /\ pc' = "returned"
    /\ result' = [kind |-> "value", value |-> outer.got]
    /\ UNCHANGED <<chunk, wordnet_loaded, rng, writes, outer, inner, lib>>

\* The with block of line 96 ends with the exception in flight: the caller
\* gets the exception, `augmented_chunk` is never bound.
RaiseChunk ==
    /\ pc = "unwind"
    /\ Settled(outer.fs)
    /\ pc' = "raised"
    /\ result' = [kind |-> "exception", value |-> <<>>]
    /\ UNCHANGED <<chunk, wordnet_loaded, rng, writes, outer, inner, lib>>

ParWords == {"The", "Cat"}
\* A text of more tokens than a pool has threads.
LongText == <<"Cat", Blank, "xyzzy", Comma, "cat">>
ParTexts == TextsOver(ParWords \cup {Blank}, MaxTextLen) \cup {LongText}

Init ==
    /\ chunk \in UNION {[1..n -> ParTexts] : n \in 0..MaxChunk}
    /\ wordnet_loaded \in BOOLEAN
    /\ rng = 0
    /\ writes = {}
    /\ pc = "call"
    /\ outer = [fs |-> <<>>, order |-> <<>>, got |-> <<>>]
    /\ inner = [i \in 1..Len(chunk) |-> NoFrame]
    /\ result = [kind |-> "none", value |-> <<>>]
    /\ lib = LibIdle

Next ==
    \/ Submit
    \/ \E i \in 1..Len(chunk) : StartText(i)
    \/ \E i \in 1..Len(chunk) : \E j \in 1..Len(inner[i].fs) : StartToken(i, j)
    \/ \E i \in 1..Len(chunk) : \E j \in 1..Len(inner[i].fs) : FinishToken(i, j)
    \/ \E i \in 1..Len(chunk) : CollectToken(i)
    \/ \E i \in 1..Len(chunk) : ReturnText(i)
    \/ \E i \in 1..Len(chunk) : RaiseText(i)
    \/ CollectChunk
    \/ ReturnChunk
    \/ RaiseChunk

Spec == Init /\ [][Next]_vars

\* Every thread that can take a step is scheduled eventually.
FairSpec == Spec /\ WF_vars(Next)

\* ------------------------------------------------- claims on the library
GetSynonymsReturned == lib.fn = "get_synonyms" /\ lib.status = "returned"
LexReturned == lib.fn = "lexical_substitution" /\ lib.status = "returned"
LexEnded == lib.fn = "lexical_substitution" /\ lib.status # "call"

\* C1: the list get_synonyms(w, pos, custom_synonyms) returns never holds w,
\* whatever the part of speech and the custom table, also a table whose
\* entry for w lists w.
C1_WordNeverInSynonyms ==
    GetSynonymsReturned => lib.word \notin lib.synonyms

\* C1 witness: a call returned for a word that is among its own lemmas and
\* in its own custom entry.
C1_Witness ==
    /\ GetSynonymsReturned
    /\ lib.word = "cat"
    /\ lib.custom_synonyms = Dict("cat" :> <<"cat", "feline">>)
    /\ lib.word \in lemma_names(lib.word, lib.pos)
    /\ "feline" \in lib.synonyms

\* The word has no sense in the database (under the filter) and no custom entry.
Unknown(word, pos, custom_synonyms) ==
    /\ \A syn \in WordNet : ~(LowerPiece(word) \in syn.forms /\ pos \in {None, syn.pos})
    /\ \/ custom_synonyms.none
       \/ word \notin DOMAIN custom_synonyms.table

\* C5: with the database loaded, get_synonyms of a word that has no sense in
\* it and no custom entry (or no table) returns the empty list, no error.
C5_UnknownWordEmpty ==
    (/\ lib.fn = "get_synonyms" /\ lib.status # "call"
     /\ wordnet_loaded
     /\ Unknown(lib.word, lib.pos, lib.custom_synonyms))
    => (lib.status = "returned" /\ ~lib.raised /\ lib.synonyms = {})

\* C5 witness: a call returned for an unknown word although the table has
\* entries for other words.
C5_Witness ==
    /\ GetSynonymsReturned
    /\ lib.word = "The"
    /\ Truthy(lib.custom_synonyms)
    /\ Unknown(lib.word, lib.pos, lib.custom_synonyms)
    /\ lib.synonyms = {}

PassThroughOnly(text) ==
    \A k \in 1..Len(word_tokenize(text)) :
        \/ word_tokenize(text)[k] \in stop_words
        \/ word_tokenize(text)[k] \notin Alphabetic

\* C4: on a text whose tokens are all stop words or punctuation,
\* lexical_substitution returns the tokens joined by single blanks, none
\* changed, whatever pos, custom table and generator state; it does not raise.
C4_PassThroughUnchanged ==
    (LexEnded /\ PassThroughOnly(lib.text))
    => /\ lib.status = "returned"
       /\ lib.augmented_text = word_tokenize(lib.text)
       /\ lib.value = join([k \in 1..Len(word_tokenize(lib.text)) |->
                               <<word_tokenize(lib.text)[k]>>])

\* C4 witness: such a text with a contraction and a punctuation mark, a custom
\* entry for one of its stop words, returned.
C4_Witness ==
    /\ LexReturned
    /\ lib.text = <<"cannot", Comma, "the">>
    /\ "the" \in DOMAIN lib.custom_synonyms.table
    /\ lib.value = <<"can", Blank, "not", Blank, Comma, Blank, "the">>

\* C9: one output token per input token, in order; a token that is not
\* alphabetic or is a stop word is emitted as it is; an alphabetic
\* non-stop-word token is replaced by a member of its synonym list (which
\* differs from it) when the list is not empty and emitted as it is otherwise.
C9_OneTokenPerToken ==
    LexReturned =>
        LET words == word_tokenize(lib.text)
            out == lib.augmented_text
        IN /\ Len(out) = Len(words)
           /\ \A k \in 1..Len(words) :
                LET synonyms == get_synonyms(words[k], lib.pos, lib.custom_synonyms)
                IN IF words[k] \in Alphabetic /\ words[k] \notin stop_words
                   THEN IF synonyms # {}
                        THEN out[k] \in synonyms /\ out[k] # words[k]
                        ELSE out[k] = words[k]
                   ELSE out[k] = words[k]

\* C9 witness: a replaced token, a punctuation mark and a token without
\* synonyms in one returned call.
C9_Witness ==
    /\ LexReturned
    /\ lib.text = <<"Cat", Comma, "xyzzy">>
    /\ lib.augmented_text = <<"cat", Comma, "xyzzy">>

ExampleCall ==
    /\ lib.fn = "lexical_substitution"
    /\ lib.text = ExampleText
    /\ lib.pos = None
    /\ lib.custom_synonyms = ExampleCustom

\* The candidates for "cat" in the example: the database's lemmas and the
\* custom synonym, "cat" left out.
ExampleCandidates == {"true_cat", "vomit", "feline"}

\* C6 as stated: the example call replaces "cat" with "feline".
C6_CatBecomesFeline ==
    (ExampleCall /\ lib.status = "returned") => lib.augmented_text[2] = "feline"

\* C6 amended: the example call replaces "cat" with one of the candidates,
\* the database's lemmas for "cat" together with "feline"; each of them is a
\* possible replacement, "feline" among them.
C6_CatBecomesCandidate ==
    /\ (ExampleCall /\ lib.status = "returned")
         => lib.augmented_text[2] \in ExampleCandidates
    /\ (ExampleCall /\ lib.status = "call" /\ wordnet_loaded)
         => \A s \in ExampleCandidates :
               ENABLED (LexicalSubstitutionCall /\ lib'.augmented_text[2] = s)

\* C6 witness: the example call returned with "feline" in place of "cat".
C6_Witness ==
    /\ ExampleCall /\ lib.status = "returned"
    /\ lib.augmented_text[1] = "The"
    /\ lib.augmented_text[2] = "feline"

\* ------------------------------------------- claims on the parallel calls
Terminated == pc \in {"returned", "raised"}

\* What lexical_substitution(token) can return.
TokenResults(token) ==
    {o.value : o \in {r \in lexical_substitution(<<token>>, None, NoCustom) : ~r.raised}}

\* The alphabetic non-stop-word tokens of the lower-cased text.
FilteredOf(text) ==
    SelectSeq(word_tokenize([k \in 1..Len(text) |-> LowerPiece(text[k])]),
              LAMBDA w : w \in Alphabetic \ stop_words)

\* The strings made of one result per token, in the tokens' order, one blank
\* in between.
RECURSIVE JoinedResults(_)
JoinedResults(tokens) ==
    IF tokens = <<>> THEN {<<>>}
    ELSE IF Len(tokens) = 1 THEN TokenResults(tokens[1])
    ELSE {a \o <<Blank>> \o b : a \in TokenResults(tokens[1]),
                                b \in JoinedResults(Tail(tokens))}

\* C2: augment_chunk_parallel returns a list as long as the chunk whose
\* element i is what the call augment_text_parallel(chunk[i]) returned, an
\* augmentation of chunk[i], whatever order the workers completed in.
C2_ChunkOrderPreserved ==
    pc = "returned" =>
        /\ result.kind = "value"
        /\ Len(result.value) = Len(chunk)
        /\ \A i \in 1..Len(chunk) :
              /\ outer.fs[i].state = "done"
              /\ result.value[i] = outer.fs[i].value
              /\ result.value[i] \in JoinedResults(FilteredOf(chunk[i]))

\* C2 witness: a chunk of two texts returned, the second text's call having
\* completed first, with different augmentations.
C2_Witness ==
    /\ pc = "returned"
    /\ Len(chunk) = 2
    /\ outer.order = <<2, 1>>
    /\ result.value[1] # result.value[2]
    /\ result.value[1] # <<>> /\ result.value[2] # <<>>

\* C3: augment_text_parallel returns the single-blank join of the results of
\* lexical_substitution(token) for the alphabetic non-stop-word tokens of the
\* lower-cased text, in the tokens' order, whatever order they completed in.
C3_TextOrderPreserved ==
    \A i \in 1..Len(outer.fs) :
        outer.fs[i].state = "done" =>
            LET f == inner[i]
                n == Len(FilteredOf(chunk[i]))
            IN /\ f.filtered_tokens = FilteredOf(chunk[i])
               /\ Len(f.fs) = n
               /\ \A j \in 1..n : /\ f.fs[j].state = "done"
                                   /\ f.fs[j].value \in TokenResults(f.filtered_tokens[j])
               /\ outer.fs[i].value = join([j \in 1..n |-> f.fs[j].value])

\* C3 witness: a text with a filtered-out token and other tokens returned, the
\* second token's call having completed first, with different results.
C3_Witness ==
    \E i \in 1..Len(outer.fs) :
        /\ outer.fs[i].state = "done"
        /\ Len(word_tokenize(chunk[i])) > Len(inner[i].filtered_tokens)
        /\ Len(inner[i].order) = 3
        /\ inner[i].order[1] = 2
        /\ inner[i].fs[1].value # inner[i].fs[2].value

SharedBy(a, b) == a.loc = b.loc /\ a.worker # b.worker

\* C7 as stated: no location is written by two workers.
C7_NoSharedWrite ==
    \A a \in writes : \A b \in writes : ~SharedBy(a, b)

\* C7 amended: the generator of module random is the only location written
\* by more than one worker; every other location a worker writes is written
\* by that worker alone.
C7_OnlyRandomShared ==
    \A a \in writes : \A b \in writes : SharedBy(a, b) => a.loc = <<"random", 0, 0>>

\* C7 witness: two workers of different texts and two workers of one text all
\* called random.choice and filled their own lists.
C7_Witness ==
    \E i \in DOMAIN inner : \E t \in DOMAIN inner :
        /\ i # t
        /\ \A w \in {<<i, 1>>, <<t, 1>>, <<t, 3>>} :
              /\ [worker |-> w, loc |-> <<"random", 0, 0>>] \in writes
              /\ [worker |-> w, loc |-> <<"augmented_text", w[1], w[2]>>] \in writes

TokenFailed(i) == \E j \in 1..Len(inner[i].fs) : inner[i].fs[j].state = "failed"
TextFailed == \E i \in 1..Len(outer.fs) : outer.fs[i].state = "failed"

\* C8: a failed lexical_substitution call makes its augment_text_parallel
\* call raise and return nothing; a failed augment_text_parallel call makes
\* augment_chunk_parallel raise and return nothing, the results of the calls
\* that succeeded included.
C8_FailureAbortsBatch ==
    /\ \A i \in DOMAIN inner :
          TokenFailed(i) =>
              /\ outer.fs[i].state \in {"running", "failed"}
              /\ outer.fs[i].value = <<>>
              /\ inner[i].pc = "done" => outer.fs[i].state = "failed"
    /\ TextFailed => (pc # "returned" /\ result.kind # "value")
    /\ (TextFailed /\ Terminated) => (pc = "raised" /\ result = [kind |-> "exception", value |-> <<>>])

\* C8 witness: the chunk call raised although the call for another text had
\* succeeded and its result had been taken.
C8_Witness ==
    /\ pc = "raised"
    /\ \E i \in 1..Len(outer.fs) : outer.fs[i].state = "done"
    /\ outer.got # <<>>
    /\ TextFailed

Drained ==
    /\ Settled(outer.fs)
    /\ \A i \in DOMAIN inner : Settled(inner[i].fs) /\ inner[i].pc \in {"idle", "done"}

\* C10: under fair scheduling augment_chunk_parallel ends, by a return when
\* the lexical database is loaded, and at the end every pool is drained: no
\* task of the chunk's pool or of a text's own pool is queued or running.
C10_EventuallyReturns ==
    <>(/\ Terminated
       /\ wordnet_loaded => pc = "returned"
       /\ Drained)

\* C10 witness: a chunk as long as the pool has threads, holding a text of
\* more tokens than the pool has threads, returned.
C10_Witness ==
    /\ pc = "returned"
    /\ Len(chunk) >= 2
    /\ \E i \in DOMAIN inner : Len(inner[i].fs) = 3
    /\ Drained

====
